---------------------------- MODULE Spec2Model ----------------------------
(***************************************************************************)
(* A model of the CUPS printer driver (node-cups-printer): the lpstat      *)
(* output parser extractPrinters, the lp argument translator lp_print and  *)
(* the Printer directory (cache, auto-refresh timer, print, printDirect).  *)
(*                                                                         *)
(* JavaScript strings are TLA+ strings; TLC evaluates Len, SubSeq and \o   *)
(* on them, so split, includes, trim and the other string methods are     *)
(* computed character by character as the engine computes them.            *)
(***************************************************************************)
EXTENDS Integers, Sequences, FiniteSets, TLC

(***************************************************************************)
(* Bounds of the model.                                                    *)
(***************************************************************************)
\* lines of a generated 'lpstat -p' text
MaxLines == 3
\* tokens of a generated lp confirmation text
MaxTokens == 5
\* submissions of one request object
MaxSubmits == 2
\* interval timers alive at once
MaxTimers == 2
\* background refreshes in flight at once
MaxInflight == 2

(***************************************************************************)
(* String methods of the JavaScript engine.                                *)
(***************************************************************************)
CharAt(s, i) == SubSeq(s, i, i)

\* s.startsWith(t, at i) with 1-based i
MatchesAt(s, t, i) == i + Len(t) - 1 <= Len(s) /\ SubSeq(s, i, i + Len(t) - 1) = t

StartsWith(s, t) == MatchesAt(s, t, 1)

\* s.includes(t)
Includes(s, t) == \E i \in 1..(Len(s) + 1) : MatchesAt(s, t, i)

RECURSIVE IndexFrom(_, _, _)
\* s.indexOf(t, from), 1-based; 0 when t does not occur (t is not empty)
IndexFrom(s, t, from) ==
    IF from + Len(t) - 1 > Len(s) THEN 0
    ELSE IF MatchesAt(s, t, from) THEN from
    ELSE IndexFrom(s, t, from + 1)

RECURSIVE Split(_, _)
\* s.split(sep) for a non-empty separator: "" splits to <<"">>
Split(s, sep) ==
    LET i == IndexFrom(s, sep, 1) IN
    IF i = 0 THEN <<s>>
    ELSE <<SubSeq(s, 1, i - 1)>> \o Split(SubSeq(s, i + Len(sep), Len(s)), sep)

\* array.filter(Boolean) on an array of strings: drops the empty strings
FilterBoolean(a) == SelectSeq(a, LAMBDA w : w # "")

WhiteSpace == {" ", "\n", "\t", "\r"}

RECURSIVE TrimStart(_)
TrimStart(s) ==
    IF s # "" /\ CharAt(s, 1) \in WhiteSpace THEN TrimStart(SubSeq(s, 2, Len(s))) ELSE s

RECURSIVE TrimEnd(_)
TrimEnd(s) ==
    IF s # "" /\ CharAt(s, Len(s)) \in WhiteSpace
    THEN TrimEnd(SubSeq(s, 1, Len(s) - 1)) ELSE s

\* s.trim()
Trim(s) == TrimEnd(TrimStart(s))

\* array.find(p), called with the indices of the elements that satisfy p: the
\* index of the first of them, 0 when there is none
FindIndex(found) ==
    IF found = {} THEN 0 ELSE CHOOSE i \in found : \A j \in found : i <= j

\* array.map(line => line.trim())
MapTrim(a) == [i \in 1..Len(a) |-> Trim(a[i])]

Last(a) == a[Len(a)]

UpperLetters == "ABCDEFGHIJKLMNOPQRSTUVWXYZ"
LowerLetters == "abcdefghijklmnopqrstuvwxyz"

\* the lower-case letter of each upper-case letter
LowerOf == [c \in {CharAt(UpperLetters, i) : i \in 1..Len(UpperLetters)} |->
               CharAt(LowerLetters, IndexFrom(UpperLetters, c, 1))]

LowerChar(c) == IF c \in DOMAIN LowerOf THEN LowerOf[c] ELSE c

RECURSIVE ToLowerCase(_)
\* s.toLowerCase()
ToLowerCase(s) ==
    IF s = "" THEN "" ELSE LowerChar(CharAt(s, 1)) \o ToLowerCase(SubSeq(s, 2, Len(s)))

Digits == "0123456789"

IsDigit(c) == IndexFrom(Digits, c, 1) # 0

DigitValue(c) == IndexFrom(Digits, c, 1) - 1

RECURSIVE DecimalValue(_)
DecimalValue(s) ==
    IF s = "" THEN 0
    ELSE 10 * DecimalValue(SubSeq(s, 1, Len(s) - 1)) + DigitValue(CharAt(s, Len(s)))

\* the value NaN of the engine
NaN == -1

\* unary plus on a string, Number(s): white space is trimmed, the empty string
\* is 0, a run of decimal digits is its value and every other text is NaN
\* (the texts of this model hold no sign, point, exponent or radix prefix)
ToNumber(s) ==
    LET t == Trim(s) IN
    IF t = "" THEN 0
    ELSE IF \A i \in 1..Len(t) : IsDigit(CharAt(t, i)) THEN DecimalValue(t)
    ELSE NaN

RECURSIVE NumberToString(_)
\* n + '' for a non-negative integer n
NumberToString(n) ==
    IF n < 10 THEN CharAt(Digits, n + 1)
    ELSE NumberToString(n \div 10) \o CharAt(Digits, (n % 10) + 1)

RECURSIVE Join(_, _)
\* array.join(sep)
Join(a, sep) ==
    IF Len(a) = 0 THEN ""
    ELSE IF Len(a) = 1 THEN a[1]
    ELSE a[1] \o sep \o Join(Tail(a), sep)


(***************************************************************************)
(* The status queries and the printer record extractor.                    *)
(***************************************************************************)
\* Object.keys(lpstat_commands), in insertion order
lpstat_keys == <<"printers", "accepting", "addresses", "default", "details">>

lpstat_commands ==
    [printers  |-> <<"lpstat", "-p">>,
     accepting |-> <<"lpstat", "-a">>,
     addresses |-> <<"lpstat", "-s">>,
     default   |-> <<"lpstat", "-d">>,
     details   |-> <<"lpstat", "-l", "-p">>]

lpstat_detail_ki ==
    <<[key |-> "printer-info", filter |-> "Description: "],
      [key |-> "printer-location", filter |-> "Location: "]>>

\* words[1] of a split line; a line of one word has none, and the engine
\* writes the missing value as "undefined" wherever it is used as text
SecondWord(words) == IF Len(words) >= 2 THEN words[2] ELSE "undefined"

\* the info object of one printer: the keys of lpstat_detail_ki whose filter
\* starts a trimmed row of the printer's details block
DetailInfo(printerDetails, name) ==
    LET d == FindIndex({i \in 1..Len(printerDetails) : Includes(printerDetails[i], name \o " ")})
        rows == IF d = 0 THEN <<>>
                ELSE FilterBoolean(MapTrim(Split(printerDetails[d], "\n")))
        RowOf(i) == FindIndex({r \in 1..Len(rows) : StartsWith(rows[r], lpstat_detail_ki[i].filter)})
        found == {i \in 1..Len(lpstat_detail_ki) : RowOf(i) # 0}
    IN [k \in {lpstat_detail_ki[i].key : i \in found} |->
           LET i == CHOOSE j \in found : lpstat_detail_ki[j].key = k
               f == lpstat_detail_ki[i].filter
               row == rows[RowOf(i)]
           IN Trim(SubSeq(row, Len(f) + 1, Len(row)))]

\* the record built for a 'printer <name>' header line
PrinterRecord(stats, name) ==
    LET addressLines == Split(stats.addresses, "\n")
        acceptingLines == Split(stats.accepting, "\n")
        printerDetails == FilterBoolean(Split(stats.details, "\nprinter"))
        isDefault == Includes(stats.default, name)
        s == FindIndex({i \in 1..Len(addressLines) : Includes(addressLines[i], name \o ": ")})
        socket == IF s = 0 THEN "" ELSE Last(Split(addressLines[s], " "))
        acceptingRequests ==
            IF FindIndex({i \in 1..Len(acceptingLines) : Includes(acceptingLines[i], name \o " accepting")}) # 0
            THEN "true" ELSE "false"
        info == DetailInfo(printerDetails, name)
    IN [name |-> name,
        isDefault |-> isDefault,
        options |-> info @@ ("printer-is-accepting-jobs" :> acceptingRequests
                             @@ "device-uri" :> socket)]

RECURSIVE ExtractLoop(_, _, _, _)
\* the for loop over the lines of the 'printers' text: cur is currentPrinter
\* (<<>> is null, <<r>> the record r) and result the array built so far
ExtractLoop(stats, lines, cur, result) ==
    IF lines = <<>> THEN result
    ELSE LET words == Split(Head(lines), " ")
             cur2 == IF words[1] = "printer"
                     THEN <<PrinterRecord(stats, SecondWord(words))>>
                     ELSE cur
             \* line 300: the push is inside the loop body, after the if
             result2 == IF cur2 # <<>> THEN Append(result, cur2[1]) ELSE result
         IN ExtractLoop(stats, Tail(lines), cur2, result2)

extractPrinters(stats) == ExtractLoop(stats, Split(stats.printers, "\n"), <<>>, <<>>)


(***************************************************************************)
(* The job submission translator lp_print.  A request is a record of its   *)
(* fields, an unset string field being "", an unset number 0 and an unset  *)
(* flag FALSE (all of them falsy, as undefined is); hasArgs tells whether  *)
(* the caller gave an args array, which options.args then holds.           *)
(***************************************************************************)
\* const host = options.host ? [host, port ? port : ''].filter(Boolean).join(':') : ''
HostOf(options) ==
    IF options.host # ""
    THEN Join(FilterBoolean(<<options.host,
                              IF options.port # 0 THEN NumberToString(options.port) ELSE "">>),
              ":")
    ELSE ""

\* const type = ((options.type || 'RAW') + '').toLowerCase()
TypeOf(options) == ToLowerCase(IF options.type # "" THEN options.type ELSE "RAW")

\* PushFlags with the copies flag pushed after the destination flag
PushFlagsCopiesLate(args, options) ==
    LET a1 == IF options.file = "" THEN args \o <<"-o", TypeOf(options)>> ELSE args
        a3 == IF options.printer # "" THEN a1 \o <<"-d", options.printer>> ELSE a1
        a2 == IF options.copies # 0
              THEN a3 \o <<"-n", NumberToString(options.copies)>> ELSE a3
        a4 == IF HostOf(options) # "" THEN a2 \o <<"-h", HostOf(options)>> ELSE a2
        a5 == IF options.username # "" THEN a4 \o <<"-U", options.username>> ELSE a4
        a6 == IF options.title # "" THEN a5 \o <<"-T", options.title>> ELSE a5
        a7 == IF options.quality # 0
              THEN a6 \o <<"-o", "print-quality=" \o NumberToString(options.quality)>>
              ELSE a6
        a8 == IF options.orientation # 0
              THEN a7 \o <<"-o", "orientation-requested=" \o NumberToString(options.orientation)>>
              ELSE a7
        a9 == IF options.encryption THEN a8 \o <<"-E">> ELSE a8
    IN IF options.file # "" THEN a9 \o <<"--", options.file>> ELSE a9

\* the pushes of lines 149-157 onto args, then line 168 for a file
PushFlags(args, options) ==
    LET a1 == IF options.file = "" THEN args \o <<"-o", TypeOf(options)>> ELSE args
        a2 == IF options.copies # 0
              THEN a1 \o <<"-n", NumberToString(options.copies)>> ELSE a1
        a3 == IF options.printer # "" THEN a2 \o <<"-d", options.printer>> ELSE a2
        a4 == IF HostOf(options) # "" THEN a3 \o <<"-h", HostOf(options)>> ELSE a3
        a5 == IF options.username # "" THEN a4 \o <<"-U", options.username>> ELSE a4
        a6 == IF options.title # "" THEN a5 \o <<"-T", options.title>> ELSE a5
        a7 == IF options.quality # 0
              THEN a6 \o <<"-o", "print-quality=" \o NumberToString(options.quality)>>
              ELSE a6
        a8 == IF options.orientation # 0
              THEN a7 \o <<"-o", "orientation-requested=" \o NumberToString(options.orientation)>>
              ELSE a7
        a9 == IF options.encryption THEN a8 \o <<"-E">> ELSE a8
    IN IF options.file # "" THEN a9 \o <<"--", options.file>> ELSE a9

\* lp_print without the check that data or file is given
lp_printUnchecked(options) ==
    LET args == IF options.hasArgs THEN options.args ELSE <<>> IN
    IF options.printer = ""
    THEN [error |-> "No printer provided", args |-> args, piped |-> FALSE]
    ELSE [error |-> "", args |-> PushFlags(args, options), piped |-> options.file = ""]

\* lp_print that asks for data and file together: if (!data || !file) throw
lp_printNeedsBoth(options) ==
    LET args == IF options.hasArgs THEN options.args ELSE <<>> IN
    IF options.printer = ""
    THEN [error |-> "No printer provided", args |-> args, piped |-> FALSE]
    ELSE IF options.data = "" \/ options.file = ""
    THEN [error |-> "No data or file provided", args |-> args, piped |-> FALSE]
    ELSE [error |-> "", args |-> PushFlags(args, options), piped |-> options.file = ""]

\* The synchronous part of lp_print(options): error is the message the
\* promise is rejected with ("" when lp was spawned), args the args array
\* after the call and piped whether the data is streamed to lp's input.
lp_print(options) ==
    LET args == IF options.hasArgs THEN options.args ELSE <<>> IN
    IF options.printer = ""
    THEN [error |-> "No printer provided", args |-> args, piped |-> FALSE]
    ELSE IF options.data = "" /\ options.file = ""
    THEN [error |-> "No data or file provided", args |-> args, piped |-> FALSE]
    ELSE [error |-> "", args |-> PushFlags(args, options), piped |-> options.file = ""]

\* a settled value: a number or a string
NumberValue(n) == [type |-> "number", num |-> n, str |-> ""]

StringValue(t) == [type |-> "string", num |-> 0, str |-> t]

\* callback taking the third-from-last token already when 3 tokens remain
callbackFromThree(response) ==
    LET split == FilterBoolean(Split(response, " "))
        jobIdLong == IF Len(split) >= 3 THEN split[Len(split) - 2] ELSE response
    IN NumberValue(ToNumber(Last(Split(jobIdLong, "-"))))

\* the callback of lp_print on lp's output: the job id the promise resolves with
callback(response) ==
    LET split == FilterBoolean(Split(response, " "))
        jobIdLong == IF Len(split) > 3 THEN split[Len(split) - 2] ELSE response
    IN NumberValue(ToNumber(Last(Split(jobIdLong, "-"))))

\* the same callback in vovk-cups-printer.js
callback_vovk(response) ==
    LET split == FilterBoolean(Split(response, " "))
    IN StringValue(IF Len(split) > 3 THEN split[Len(split) - 2] ELSE response)

(***************************************************************************)
(* The print subsystem the driver talks to: what the five lpstat queries   *)
(* print in each CUPS configuration of the model (1: printer A alone,      *)
(* 2: printers A and B).  A child answers from the configuration at its    *)
(* spawn; the five children of one refresh are spawned by one map call.    *)
(***************************************************************************)
Worlds == {1, 2}

LpstatOutput(w) ==
    IF w = 1
    THEN [printers  |-> "printer A is idle.\n",
          accepting |-> "A accepting requests since Thu\n",
          addresses |-> "system default destination: A\ndevice for A: socket://10.0.0.7\n",
          default   |-> "system default destination: A\n",
          details   |-> "printer A is idle.\n\tDescription: Label\n\tLocation: XT2\n"]
    ELSE [printers  |-> "printer A is idle.\nprinter B disabled since Thu -\n\tPaused\n",
          accepting |-> "A accepting requests since Thu\nB not accepting requests since Thu -\n",
          addresses |-> "device for A: socket://10.0.0.7\ndevice for B: usb://x\n",
          default   |-> "no system default destination\n",
          details   |-> "printer A is idle.\n\tDescription: Label\nprinter B disabled since Thu -\n\tLocation: XT3\n"]

\* the printer names of each configuration
WorldNames(w) == IF w = 1 THEN {"A"} ELSE {"A", "B"}

\* what lp prints for an accepted job
LpOutput(printer) == "request id is " \o printer \o "-92 (1 file(s))\n"

(***************************************************************************)
(* The Printer directory.  The operators below compute what one call does  *)
(* to the fields of the Printer object; the actions assign the result.     *)
(***************************************************************************)
\* setInterval(..., interval || 15000)
DefaultInterval == 15000

\* extractPrinters(stats) for the stats of a whole snapshot of configuration w
Snapshot == [w \in Worlds |-> extractPrinters(LpstatOutput(w))]

\* the end of a cold load whose queries all returned: this.printers is
\* assigned the extracted list, printersLoaded set, and the list returned
ColdLoad(list) ==
    [threw |-> FALSE, printers |-> list, loaded |-> TRUE, ret |-> list,
     spawned |-> Len(lpstat_keys), refresh |-> <<>>]

\* getPrinters that starts no background refresh on a loaded directory
getPrintersNoRefresh(cache, loaded, w, fail) ==
    IF ~loaded
    THEN IF fail = 0
         THEN ColdLoad(Snapshot[w])
         ELSE [threw |-> TRUE, printers |-> cache, loaded |-> loaded,
               ret |-> <<>>, spawned |-> fail, refresh |-> <<>>]
    ELSE [threw |-> FALSE, printers |-> cache, loaded |-> loaded,
          ret |-> cache, spawned |-> 0, refresh |-> <<>>]

\* getPrinters that sets printersLoaded before it runs the queries
getPrintersFlagEarly(cache, loaded, w, fail) ==
    IF ~loaded
    THEN IF fail = 0
         THEN ColdLoad(Snapshot[w])
         ELSE [threw |-> TRUE, printers |-> cache, loaded |-> TRUE,
               ret |-> <<>>, spawned |-> fail, refresh |-> <<>>]
    ELSE [threw |-> FALSE, printers |-> cache, loaded |-> loaded,
          ret |-> cache, spawned |-> Len(lpstat_keys), refresh |-> <<w>>]

\* What getPrinters() does when the cache is `cache` and printersLoaded is
\* `loaded`, in configuration w; fail = k > 0 makes the k-th runCommandSync of
\* the cold load throw, fail = 0 lets all five return.  printers and loaded
\* are the fields after the call, ret the returned list, spawned the number
\* of processes started and refresh the background refreshes started.
getPrinters(cache, loaded, w, fail) ==
    IF ~loaded
    THEN IF fail = 0
         THEN ColdLoad(Snapshot[w])
         ELSE [threw |-> TRUE, printers |-> cache, loaded |-> loaded,
               ret |-> <<>>, spawned |-> fail, refresh |-> <<>>]
    ELSE [threw |-> FALSE, printers |-> cache, loaded |-> loaded,
          ret |-> cache, spawned |-> Len(lpstat_keys),
          refresh |-> <<w>>]

\* this.printers.find(printer => printer.name === printerName) on the
\* directory as the getPrinters outcome g leaves it
Find(printerName, g) ==
    [threw |-> g.threw, printers |-> g.printers, loaded |-> g.loaded,
     spawned |-> g.spawned, refresh |-> g.refresh,
     found |-> ~g.threw /\ \E i \in 1..Len(g.printers) : g.printers[i].name = printerName]

\* getPrinter that calls getPrinters only on an unloaded directory
getPrinterOnlyUnloaded(printerName, cache, loaded, timer, w, fail) ==
    Find(printerName,
         IF ~loaded
         THEN getPrinters(cache, loaded, w, fail)
         ELSE [threw |-> FALSE, printers |-> cache, loaded |-> loaded,
               ret |-> cache, spawned |-> 0, refresh |-> <<>>])

\* What getPrinter(printerName) does; timer is this.refreshInterval (0 when
\* undefined).  found tells whether find returned a record.
getPrinter(printerName, cache, loaded, timer, w, fail) ==
    Find(printerName,
         IF ~loaded \/ timer = 0
         THEN getPrinters(cache, loaded, w, fail)
         ELSE [threw |-> FALSE, printers |-> cache, loaded |-> loaded,
               ret |-> cache, spawned |-> 0, refresh |-> <<>>])

\* getPrinter as it leaves the directory when it is not called
NoLookup(cache, loaded) ==
    [threw |-> FALSE, printers |-> cache, loaded |-> loaded, spawned |-> 0,
     refresh |-> <<>>, found |-> FALSE]

\* the message of the Error runCommandSync throws for the k-th query, up to
\* the captured stderr that follows it
ExecError(k) == "Failed to run command '" \o Join(lpstat_commands[lpstat_keys[k]], " ") \o "'"

NotFoundError(printer) == "Printer \"" \o printer \o "\" not found"

\* The outcome of one call of print or printDirect, as far as its synchronous
\* part decides it: dir is what getPrinter did to the directory, looked
\* whether getPrinter was called and returned, threw the message of an
\* exception that left the call, rejected the message the promise was rejected
\* with, errorCb the messages handed to the error callback, delegated whether
\* the submission path (lp_print, or the module's printDirect) was entered,
\* and argv the arguments lp was spawned with (<<>> when it was not spawned,
\* lp always gets at least -d).
Outcome(dir, looked, threw, rejected, errorCb, delegated, argv) ==
    [dir |-> dir, looked |-> looked, threw |-> threw, rejected |-> rejected,
     errorCb |-> errorCb, delegated |-> delegated, argv |-> argv]

\* lp_print(options).then(resolve).catch(reject) inside the executor of
\* print: a throw of lp_print's executor rejects the promise of print
Submit(options, g, r) ==
    Outcome(g, TRUE, "", r.error, <<>>, TRUE, IF r.error = "" THEN r.args ELSE <<>>)

\* print that submits without looking at what getPrinter returned
printNoExistenceCheck(options, fail, g) ==
    IF g.threw
    THEN Outcome(g, FALSE, "", ExecError(fail), <<>>, FALSE, <<>>)
    ELSE Submit(options, g, lp_print(options))

\* the executor of print from the return of getPrinter, whose outcome is g
printLookedUp(options, fail, g) ==
    IF g.threw
    THEN Outcome(g, FALSE, "", ExecError(fail), <<>>, FALSE, <<>>)
    ELSE IF ~g.found
    THEN Outcome(g, TRUE, "", NotFoundError(options.printer), <<>>, FALSE, <<>>)
    ELSE Submit(options, g, lp_print(options))

\* Printer.print(options): the executor of the returned promise
print(options, cache, loaded, timer, w, fail) ==
    IF options.printer = ""
    THEN Outcome(NoLookup(cache, loaded), FALSE, "", "Printer name is required",
                 <<>>, FALSE, <<>>)
    ELSE printLookedUp(options, fail,
                       getPrinter(options.printer, cache, loaded, timer, w, fail))

\* the args the module's printDirect builds from type and the options mapping
DirectArgs(options) ==
    (IF options.type # "" THEN <<"-o", options.type>> ELSE <<>>)
    \o [i \in 1..(2 * Len(options.options)) |->
           IF i % 2 = 1 THEN "-o"
           ELSE options.options[i \div 2].key \o "=" \o options.options[i \div 2].value]

\* the request the module's printDirect hands to lp_print: { printer, data, args }
DirectRequest(options) ==
    [printer |-> options.printer, type |-> "", data |-> options.data, file |-> "",
     host |-> "", port |-> 0, username |-> "", encryption |-> FALSE, title |-> "",
     quality |-> 0, orientation |-> 0, copies |-> 0, hasArgs |-> TRUE,
     args |-> DirectArgs(options)]

\* lp_print({ printer, data, args }).then(success).catch(error): a rejection
\* reaches the error callback
SubmitDirect(g, r) ==
    Outcome(g, TRUE, "", "", IF r.error # "" THEN <<r.error>> ELSE <<>>, TRUE,
            IF r.error = "" THEN r.args ELSE <<>>)

\* the module's printDirect(options), entered from Printer.printDirect with
\* the directory outcome g
printDirectModule(options, g) ==
    IF ~options.hasError
    THEN Outcome(g, TRUE, "No error callback provided", "", <<>>, TRUE, <<>>)
    ELSE IF ~options.hasSuccess
    THEN Outcome(g, TRUE, "", "", <<"No success callback provided">>, TRUE, <<>>)
    ELSE IF options.data = ""
    THEN Outcome(g, TRUE, "", "", <<"No data provided">>, TRUE, <<>>)
    ELSE IF options.printer = ""
    THEN Outcome(g, TRUE, "", "", <<"No printer provided">>, TRUE, <<>>)
    ELSE SubmitDirect(g, lp_print(DirectRequest(options)))

\* Printer.printDirect from the return of getPrinter, whose outcome is g
printDirectLookedUp(options, fail, g) ==
    IF g.threw
    THEN Outcome(g, FALSE, ExecError(fail), "", <<>>, FALSE, <<>>)
    ELSE IF ~g.found
    THEN Outcome(g, TRUE, "", "", <<NotFoundError(options.printer)>>, FALSE, <<>>)
    ELSE printDirectModule(options, g)

\* Printer.printDirect(options)
printDirect(options, cache, loaded, timer, w, fail) ==
    IF ~options.hasError
    THEN Outcome(NoLookup(cache, loaded), FALSE, "No error callback provided", "",
                 <<>>, FALSE, <<>>)
    ELSE IF options.printer = ""
    THEN Outcome(NoLookup(cache, loaded), FALSE, "", "", <<"No printer provided">>,
                 FALSE, <<>>)
    ELSE printDirectLookedUp(options, fail,
                             getPrinter(options.printer, cache, loaded, timer, w, fail))

(***************************************************************************)
(* State.                                                                  *)
(***************************************************************************)
VARIABLES
    \* the extractor on its own: the lines the 'printers' text was written
    \* from, the five texts handed to extractPrinters, and what it returned
    exLines, exStats, exResult, exDone,
    \* lp_print on its own: the request object (options.args is the caller's
    \* array, which lp_print pushes onto), the text lp will answer with and the
    \* tokens it was written from, the argument lists lp was spawned with so
    \* far, the state of the lp child, and the promise lp_print returned
    lpOptions, lpResponse, lpTokens, lpArgv, lpChild, lpPromise, lpCalls,
    \* the print subsystem: its current configuration
    world,
    \* the Printer object: this.printers, this.printersLoaded and
    \* this.refreshInterval (0 is undefined, else the id of a timer)
    printers, printersLoaded, refreshInterval,
    \* the event loop: the active interval timers, and the background
    \* refreshes whose Promise.all is pending, oldest first, each the
    \* configuration its five children were spawned in
    timers, refreshes,
    \* the arguments of the two most recent autoRefresh calls, latest last
    intervalArg,
    \* how the most recent step ended: "none", or "exception" when a call or
    \* timer callback threw to its caller, or "rejection" when a promise with
    \* no rejection handler rejected
    escaped,
    \* the most recent getPrinters or getPrinter call of the client and what
    \* it did and returned; seq alternates from call to call
    last,
    \* the most recent print or printDirect call, its promise, callbacks and
    \* lp child
    call,
    \* history of the background refreshes, kept by SpecRefresh alone: for
    \* each refresh in flight the configuration of the refresh started after
    \* it that wrote the cache most recently (0 when none has), and for the
    \* refresh that wrote the cache last its configuration w (0 when none has
    \* yet) and that same mark
    overtaken, completed

exVars == <<exLines, exStats, exResult, exDone>>

lpVars == <<lpOptions, lpResponse, lpTokens, lpArgv, lpChild, lpPromise, lpCalls>>

dirVars == <<world, printers, printersLoaded, refreshInterval, timers, refreshes,
             intervalArg, escaped, last, call>>

histVars == <<overtaken, completed>>

vars == <<exVars, lpVars, dirVars, histVars>>

(***************************************************************************)
(* The extractor applied to generated lpstat texts.                        *)
(***************************************************************************)
\* 'printer <name> ...' header lines, and the name each one carries
HeaderLines == {"printer A is idle.", "printer B disabled since Thu -"}

HeaderName(line) == IF line = "printer A is idle." THEN "A" ELSE "B"

\* a continuation line under a header, and a blank line
OtherLines == {"\tPaused", ""}

TextLines == HeaderLines \cup OtherLines

RECURSIVE SeqsUpTo(_, _)
\* the sequences over S of length at most n
SeqsUpTo(S, n) ==
    IF n = 0 THEN {<<>>}
    ELSE LET shorter == SeqsUpTo(S, n - 1)
         IN shorter \cup {Append(q, x) : q \in {r \in shorter : Len(r) = n - 1}, x \in S}

\* the other four texts, as lpstat prints them for printers A and B
AcceptingText == "A accepting requests since Thu\nB accepting requests since Thu\n"
AddressesText == "system default destination: A\ndevice for A: socket://10.0.0.7\ndevice for B: usb://x\n"
DefaultText == "system default destination: A\n"
DetailsText ==
    "printer A is idle.\n\tDescription: Label\n\tLocation: XT2\nprinter B disabled since Thu -\n\tDescription: Laser\n"

StatsFor(printersText) ==
    [printers  |-> printersText,
     accepting |-> AcceptingText,
     addresses |-> AddressesText,
     default   |-> DefaultText,
     details   |-> DetailsText]

ExIdle ==
    /\ exLines = <<>>
    /\ exStats = StatsFor("")
    /\ exResult = <<>>
    /\ exDone = TRUE

ExInit ==
    /\ exLines \in SeqsUpTo(TextLines, MaxLines)
    /\ \E trailing \in {"", "\n"} : exStats = StatsFor(Join(exLines, "\n") \o trailing)
    /\ exResult = <<>>
    /\ exDone = FALSE

Extract ==
    /\ ~exDone
    /\ exResult' = extractPrinters(exStats)
    /\ exDone' = TRUE
    /\ UNCHANGED <<exLines, exStats>>
    /\ UNCHANGED <<lpVars, dirVars, histVars>>

RECURSIVE FirstSeen(_, _)
\* the names of the header lines among ls, each once, in first-seen order
FirstSeen(ls, seen) ==
    IF ls = <<>> THEN <<>>
    ELSE IF Head(ls) \in HeaderLines /\ HeaderName(Head(ls)) \notin seen
         THEN <<HeaderName(Head(ls))>> \o FirstSeen(Tail(ls), seen \cup {HeaderName(Head(ls))})
         ELSE FirstSeen(Tail(ls), seen)

Names(records) == [i \in 1..Len(records) |-> records[i].name]

\* C1: for every 'printers' text, extractPrinters returns one record per
\* distinct header name, in the order the names first appear, no name twice.
C1_OneRecordPerName ==
    exDone => Names(exResult) = FirstSeen(exLines, {})

ExNext == Extract


(***************************************************************************)
(* lp_print applied to generated requests and lp answers.                  *)
(***************************************************************************)
\* PrintRequest{printer:"P1", data:"hello", copies:2}
ExampleRequest ==
    [printer |-> "P1", type |-> "", data |-> "hello", file |-> "", host |-> "",
     port |-> 0, username |-> "", encryption |-> FALSE, title |-> "", quality |-> 0,
     orientation |-> 0, copies |-> 2, hasArgs |-> FALSE, args |-> <<>>]

Requests ==
    [printer : {"", "P1"}, type : {"", "RAW", "PDF"}, data : {"", "hello"},
     file : {"", "/tmp/a.pdf"}, host : {"", "cups.lan"}, port : {0, 631},
     username : {"", "joe"}, encryption : BOOLEAN, title : {"", "Label"},
     quality : {0, 4}, orientation : {0, 3}, copies : {0, 2},
     hasArgs : {FALSE}, args : {<<>>}]
    \cup
    {[ExampleRequest EXCEPT !.hasArgs = TRUE, !.args = a, !.file = f] :
        a \in {<<>>, <<"-o", "media=A4">>}, f \in {"", "/tmp/a.pdf"}}

ExampleTokens == <<"request", "id", "is", "ZPL-PRINTER-92", "(0", "file(s))">>

ResponseTokens == {"is", "ZPL-PRINTER-92", "7"}

\* the number after the last '-' of a token, as the engine converts it
TokenNumber(tok) ==
    CASE tok = "ZPL-PRINTER-92" -> 92
      [] tok = "7" -> 7
      [] OTHER -> NaN

\* the answers of lp: tokens separated by one or two spaces, with or without a
\* leading space and a closing newline
ResponsesOf(toks) ==
    {lead \o Join(toks, sep) \o tail : lead \in {"", " "}, sep \in {" ", "  "}, tail \in {"", "\n"}}

LpIdle ==
    /\ lpOptions = ExampleRequest
    /\ lpResponse = ""
    /\ lpTokens = <<>>
    /\ lpArgv = <<>>
    /\ lpChild = "none"
    /\ lpPromise = [state |-> "none", value |-> StringValue(""), vovk |-> StringValue("")]
    /\ lpCalls = MaxSubmits

LpInit ==
    /\ \/ /\ lpOptions \in Requests
          /\ lpTokens = ExampleTokens
          /\ lpResponse = Join(ExampleTokens, " ")
       \/ /\ lpOptions = ExampleRequest
          /\ lpTokens \in SeqsUpTo(ResponseTokens, MaxTokens) \cup {ExampleTokens}
          /\ lpResponse \in ResponsesOf(lpTokens)
    /\ lpArgv = <<>>
    /\ lpChild = "none"
    /\ lpPromise = [state |-> "none", value |-> StringValue(""), vovk |-> StringValue("")]
    /\ lpCalls = 0

\* lp_print(lpOptions) is called: validation, the pushes onto args, the spawn
LpPrintCall ==
    /\ lpChild = "none"
    /\ lpCalls < MaxSubmits
    /\ lpCalls' = lpCalls + 1
    /\ LET r == lp_print(lpOptions) IN
       IF r.error # ""
       THEN /\ lpPromise' = [state |-> "rejected", value |-> StringValue(r.error),
                             vovk |-> StringValue(r.error)]
            /\ UNCHANGED <<lpOptions, lpArgv, lpChild>>
       ELSE /\ lpPromise' = [state |-> "pending", value |-> StringValue(""),
                             vovk |-> StringValue("")]
            /\ lpOptions' = IF lpOptions.hasArgs THEN [lpOptions EXCEPT !.args = r.args]
                            ELSE lpOptions
            /\ lpArgv' = Append(lpArgv, r.args)
            /\ lpChild' = "running"
    /\ UNCHANGED <<lpResponse, lpTokens>>
    /\ UNCHANGED <<exVars, dirVars, histVars>>

\* lp closes with the given exit code: runCommand resolves with the output and
\* the callback runs, or runCommand rejects, which nothing is chained to
LpClose(code) ==
    /\ lpChild = "running"
    /\ lpChild' = "none"
    /\ lpPromise' = IF code = 0
                    THEN [state |-> "resolved", value |-> callback(lpResponse),
                          vovk |-> callback_vovk(lpResponse)]
                    ELSE lpPromise
    /\ UNCHANGED <<lpOptions, lpResponse, lpTokens, lpArgv, lpCalls>>
    /\ UNCHANGED <<exVars, dirVars, histVars>>

LpNext == LpPrintCall \/ \E code \in {0, 1} : LpClose(code)

\* the third-from-last of the tokens the answer was written from
ThirdFromLast == lpTokens[Len(lpTokens) - 2]

\* the text after the last '-' of s (all of s when it holds none)
AfterLastDash(s) ==
    LET dashes == {i \in 1..Len(s) : CharAt(s, i) = "-"}
        at == IF dashes = {} THEN 0 ELSE CHOOSE i \in dashes : \A j \in dashes : j <= i
    IN SubSeq(s, at + 1, Len(s))

\* C4 as stated: with more than 3 tokens the handle is the third-from-last
\* token or its numeric suffix; with 3 or fewer it is the whole trimmed
\* response, verbatim.
C4_HandleAsStated ==
    lpPromise.state = "resolved" =>
        IF Len(lpTokens) > 3
        THEN lpPromise.value \in {StringValue(ThirdFromLast),
                                  NumberValue(TokenNumber(ThirdFromLast))}
        ELSE lpPromise.value = StringValue(Trim(lpResponse))

\* C4 amended: the handle is always a number, the value of the text after the
\* last '-' of the third-from-last token when more than 3 tokens remain and of
\* the text after the last '-' of the whole response otherwise (NaN when that
\* text is no number); the callback of vovk-cups-printer.js resolves with the
\* third-from-last token, or with the whole response untrimmed.
C4_HandleIsNumericSuffix ==
    lpPromise.state = "resolved" =>
        /\ lpPromise.value =
              NumberValue(IF Len(lpTokens) > 3 THEN TokenNumber(ThirdFromLast)
                          ELSE ToNumber(AfterLastDash(lpResponse)))
        /\ lpPromise.vovk =
              StringValue(IF Len(lpTokens) > 3 THEN ThirdFromLast ELSE lpResponse)

\* lp answered with 3 or fewer tokens, not trimmed, and the handle is a number
C4_Witness ==
    /\ lpPromise.state = "resolved"
    /\ Len(lpTokens) = 3
    /\ lpResponse = " is  7  ZPL-PRINTER-92\n"
    /\ lpPromise.value = NumberValue(92)

Opt(cond, flags) == IF cond THEN flags ELSE <<>>

\* the flags of a request in the order the specification lists them, written
\* out for the values the generated requests take
ExpectedFlags(o) ==
    Opt(o.file = "", <<"-o", IF o.type = "PDF" THEN "pdf" ELSE "raw">>)
    \o Opt(o.copies = 2, <<"-n", "2">>)
    \o <<"-d", o.printer>>
    \o Opt(o.host # "", <<"-h", IF o.port = 631 THEN "cups.lan:631" ELSE "cups.lan">>)
    \o Opt(o.username # "", <<"-U", o.username>>)
    \o Opt(o.title # "", <<"-T", o.title>>)
    \o Opt(o.quality = 4, <<"-o", "print-quality=4">>)
    \o Opt(o.orientation = 3, <<"-o", "orientation-requested=3">>)
    \o Opt(o.encryption, <<"-E">>)
    \o Opt(o.file # "", <<"--", o.file>>)

IsSuffix(t, a) == Len(t) <= Len(a) /\ SubSeq(a, Len(a) - Len(t) + 1, Len(a)) = t

ValidRequest(o) == o.printer # "" /\ (o.data # "" \/ o.file # "")

\* C5: for every valid request lp is spawned with the flags of the set fields,
\* each once and in the stated order, after the caller's own args (and with
\* nothing else when the caller gave none); {printer:P1, data:hello, copies:2}
\* yields -o raw -n 2 -d P1.
C5_FlagsInOrder ==
    /\ (lpCalls > 0 /\ ValidRequest(lpOptions)) => lpArgv # <<>>
    /\ \A k \in 1..Len(lpArgv) :
          /\ ValidRequest(lpOptions)
          /\ IsSuffix(ExpectedFlags(lpOptions), lpArgv[k])
          /\ ~lpOptions.hasArgs => lpArgv[k] = ExpectedFlags(lpOptions)
          /\ lpOptions = ExampleRequest => lpArgv[k] = <<"-o", "raw", "-n", "2", "-d", "P1">>

\* lp was spawned for a file request with every optional field set
C5_Witness ==
    /\ lpArgv # <<>>
    /\ lpArgv[1] = <<"-n", "2", "-d", "P1", "-h", "cups.lan:631", "-U", "joe", "-T", "Label",
                     "-o", "print-quality=4", "-o", "orientation-requested=3", "-E",
                     "--", "/tmp/a.pdf">>

\* lp_print was called with a request that names a printer
Submitted == lpCalls > 0 /\ lpOptions.printer # ""

\* C11 as stated: a request is submitted only with exactly one of data and
\* file; with neither, and with both, it is rejected and lp is not spawned.
C11_ExactlyOneAccepted ==
    Submitted =>
        IF (lpOptions.data = "") = (lpOptions.file = "")
        THEN lpPromise.state = "rejected" /\ lpArgv = <<>>
        ELSE lpArgv # <<>>

\* C11 amended: a request with neither data nor file is rejected with the
\* validation error and lp is not spawned; a request with data, with file, or
\* with both is submitted, and whenever file is given, also next to data, it
\* is a file submission: the argument list ends with -- and the file path.
C11_NeitherRejected ==
    Submitted =>
        IF lpOptions.data = "" /\ lpOptions.file = ""
        THEN /\ lpArgv = <<>>
             /\ lpPromise.state = "rejected"
             /\ lpPromise.value = StringValue("No data or file provided")
        ELSE /\ lpArgv # <<>>
             /\ lpPromise.state # "rejected"
             /\ \A k \in 1..Len(lpArgv) :
                   IF lpOptions.file # ""
                   THEN IsSuffix(<<"--", lpOptions.file>>, lpArgv[k])
                   ELSE \A i \in 1..Len(lpArgv[k]) : lpArgv[k][i] # "--"

\* a request with both data and file was submitted as a file
C11_Witness ==
    /\ lpOptions.data = "hello" /\ lpOptions.file = "/tmp/a.pdf"
    /\ lpChild = "running"
    /\ lpArgv # <<>> /\ IsSuffix(<<"--", "/tmp/a.pdf">>, lpArgv[1])

\* C13: no step changes the request lp_print was called with, its args list
\* included, and every submission of the request hands lp the same argument
\* list as the submissions before it.
C13_RequestUnchanged ==
    [][/\ lpOptions' = lpOptions
       /\ \A i, j \in 1..Len(lpArgv') : lpArgv'[i] = lpArgv'[j]]_vars

(***************************************************************************)
(* The Printer directory driven by a client, the timers and the children.  *)
(***************************************************************************)
\* interval arguments of autoRefresh; 0 stands for an omitted one (both falsy)
Intervals == {0, 5000}

\* a request with every field unset
NoRequest ==
    [printer |-> "", type |-> "", data |-> "", file |-> "", host |-> "", port |-> 0,
     username |-> "", encryption |-> FALSE, title |-> "", quality |-> 0,
     orientation |-> 0, copies |-> 0, hasArgs |-> FALSE, args |-> <<>>,
     options |-> <<>>, hasSuccess |-> FALSE, hasError |-> FALSE]

\* the requests print is called with: B is a printer of configuration 2 only
PrintRequests ==
    {[NoRequest EXCEPT !.printer = p, !.data = d, !.file = f] :
        p \in {"A", "B"}, d \in {"", "hello"}, f \in {"", "/tmp/a.pdf"}}
    \cup {[NoRequest EXCEPT !.data = "hello"]}

\* the requests printDirect is called with: with an error callback, and one
\* without, and one with a type and an options mapping
DirectRequests ==
    {[NoRequest EXCEPT !.printer = p, !.data = d, !.hasSuccess = sc, !.hasError = TRUE] :
        p \in {"A", "B"}, d \in {"", "hello"}, sc \in BOOLEAN}
    \cup
    {[NoRequest EXCEPT !.data = "hello", !.hasSuccess = TRUE, !.hasError = TRUE],
     [NoRequest EXCEPT !.printer = "A", !.data = "hello", !.hasSuccess = TRUE],
     [NoRequest EXCEPT !.printer = "A", !.data = "hello", !.hasSuccess = TRUE,
                       !.hasError = TRUE, !.type = "RAW",
                       !.options = <<[key |-> "media", value |-> "A4"]>>]}

NoLast ==
    [seq |-> 0, op |-> "none", name |-> "", loadedBefore |-> FALSE, timerBefore |-> FALSE,
     before |-> <<>>, w |-> 1, threw |-> FALSE, ret |-> <<>>, found |-> FALSE,
     spawned |-> 0, started |-> 0]

NoCall ==
    [kind |-> "none", options |-> NoRequest, state |-> "none", value |-> StringValue(""),
     threw |-> "", errorCb |-> <<>>, successCb |-> <<>>, child |-> "none", argv |-> <<>>,
     looked |-> FALSE, found |-> FALSE, delegated |-> FALSE, loadedBefore |-> FALSE,
     timerBefore |-> FALSE, lpstatSpawned |-> 0, lpSpawned |-> 0]

\* no background refresh has written the cache
NoWrite == [w |-> 0, newer |-> 0]

DirIdle ==
    /\ world = 1
    /\ printers = <<>>
    /\ printersLoaded = FALSE
    /\ refreshInterval = 0
    /\ timers = {}
    /\ refreshes = <<>>
    /\ intervalArg = <<>>
    /\ escaped = "none"
    /\ last = NoLast
    /\ call = NoCall
    /\ overtaken = <<>>
    /\ completed = NoWrite

\* new Printer()
DirInit ==
    /\ world \in Worlds
    /\ printers = <<>>
    /\ printersLoaded = FALSE
    /\ refreshInterval = 0
    /\ timers = {}
    /\ refreshes = <<>>
    /\ intervalArg = <<>>
    /\ escaped = "none"
    /\ last = NoLast
    /\ call = NoCall
    /\ overtaken = <<>>
    /\ completed = NoWrite

\* the print subsystem is reconfigured
CupsChanges(w) ==
    /\ w # world
    /\ world' = w
    /\ escaped' = "none"
    /\ UNCHANGED <<printers, printersLoaded, refreshInterval, timers, refreshes,
                   intervalArg, last, call>>
    /\ UNCHANGED <<exVars, lpVars>>

\* the id of the timer setInterval creates: the least one that no timer
\* among `live` carries
FreshTimer(live) ==
    CHOOSE id \in 1..(Cardinality(live) + 1) :
        /\ \A t \in live : t.id # id
        /\ \A j \in 1..(id - 1) : \E t \in live : t.id = j

\* autoRefresh that leaves the previous timer running
ClearedNothing == timers

\* the timers left by: if (this.refreshInterval) clearInterval(this.refreshInterval)
Cleared == IF refreshInterval # 0 THEN {t \in timers : t.id # refreshInterval} ELSE timers

\* autoRefresh(interval)
autoRefresh(interval) ==
    /\ Cardinality(Cleared) < MaxTimers
    /\ timers' = Cleared \cup {[id |-> FreshTimer(Cleared),
                                ms |-> IF interval # 0 THEN interval ELSE DefaultInterval]}
    /\ refreshInterval' = FreshTimer(Cleared)
    /\ intervalArg' = IF intervalArg = <<>> THEN <<interval>>
                      ELSE <<Last(intervalArg), interval>>
    /\ escaped' = "none"
    /\ UNCHANGED <<world, printers, printersLoaded, refreshes, last, call>>
    /\ UNCHANGED <<exVars, lpVars>>

\* the directory fields after a call whose outcome is g
Assign(g) ==
    /\ Len(refreshes) + Len(g.refresh) <= MaxInflight
    /\ printers' = g.printers
    /\ printersLoaded' = g.loaded
    /\ refreshes' = refreshes \o g.refresh

\* the call record of a print or printDirect call with outcome o
CallRecord(kind, options, o) ==
    [kind |-> kind, options |-> options,
     state |-> IF kind = "printDirect" THEN "none"
               ELSE IF o.rejected # "" THEN "rejected" ELSE "pending",
     value |-> StringValue(o.rejected),
     threw |-> o.threw, errorCb |-> o.errorCb, successCb |-> <<>>,
     child |-> IF o.argv # <<>> THEN "running" ELSE "none", argv |-> o.argv,
     looked |-> o.looked, found |-> o.dir.found, delegated |-> o.delegated,
     loadedBefore |-> printersLoaded, timerBefore |-> refreshInterval # 0,
     lpstatSpawned |-> o.dir.spawned, lpSpawned |-> IF o.argv # <<>> THEN 1 ELSE 0]

\* a call with outcome g returns, or throws
Returns(g) ==
    /\ Assign(g)
    /\ escaped' = IF g.threw THEN "exception" ELSE "none"

\* what a client call of getPrinters or getPrinter with outcome g did
LastCall(op, name, g) ==
    [seq |-> 1 - last.seq, op |-> op, name |-> name, loadedBefore |-> printersLoaded,
     timerBefore |-> refreshInterval # 0, before |-> printers, w |-> world,
     threw |-> g.threw, ret |-> IF op = "getPrinters" THEN g.ret ELSE <<>>,
     found |-> IF op = "getPrinter" THEN g.found ELSE FALSE,
     spawned |-> g.spawned, started |-> Len(g.refresh)]

\* a client call of getPrinters or getPrinter with outcome g
ClientCall(op, name, g) ==
    /\ Returns(g)
    /\ last' = LastCall(op, name, g)
    /\ UNCHANGED <<world, refreshInterval, timers, intervalArg, call>>
    /\ UNCHANGED <<exVars, lpVars>>

\* a client call of print or printDirect with outcome o
SubmitCall(kind, options, o) ==
    /\ call.child # "running"
    /\ Assign(o.dir)
    /\ call' = CallRecord(kind, options, o)
    /\ escaped' = IF o.threw # "" THEN "exception" ELSE "none"
    /\ UNCHANGED <<world, refreshInterval, timers, intervalArg, last>>
    /\ UNCHANGED <<exVars, lpVars>>

\* a timer fires: () => this.getPrinters()
Tick(t, fail) ==
    /\ t \in timers
    /\ Returns(getPrinters(printers, printersLoaded, world, fail))
    /\ UNCHANGED <<world, refreshInterval, timers, intervalArg, last, call>>
    /\ UNCHANGED <<exVars, lpVars>>

\* the client calls getPrinters()
GetPrintersCall(fail) ==
    ClientCall("getPrinters", "", getPrinters(printers, printersLoaded, world, fail))

\* the client calls getPrinter(name)
GetPrinterCall(name, fail) ==
    ClientCall("getPrinter", name,
               getPrinter(name, printers, printersLoaded, refreshInterval, world, fail))

\* the refreshes in flight without the i-th
Without(i) == SubSeq(refreshes, 1, i - 1) \o SubSeq(refreshes, i + 1, Len(refreshes))

\* a then handler that drops the result of a refresh when a refresh started
\* after it has already written the cache
RefreshCompletesNewestOnly(i) ==
    /\ i \in 1..Len(refreshes)
    /\ refreshes' = Without(i)
    /\ printers' = IF overtaken[i] # 0 THEN printers ELSE Snapshot[refreshes[i]]
    /\ printersLoaded' = TRUE
    /\ escaped' = "none"
    /\ UNCHANGED <<world, refreshInterval, timers, intervalArg, last, call>>
    /\ UNCHANGED <<exVars, lpVars>>

\* The last of the five children of the i-th background refresh closes,
\* every one of them with code 0: Promise.all resolves and the then handler
\* writes the cache.  (A close with code 0 that leaves other children running
\* resolves that child's promise and changes nothing else.)
RefreshCompletes(i) ==
    /\ i \in 1..Len(refreshes)
    /\ refreshes' = Without(i)
    /\ printers' = Snapshot[refreshes[i]]
    /\ printersLoaded' = TRUE
    /\ escaped' = "none"
    /\ UNCHANGED <<world, refreshInterval, timers, intervalArg, last, call>>
    /\ UNCHANGED <<exVars, lpVars>>

\* The child of the i-th background refresh that runs query k closes with
\* another code than 0 while Promise.all is pending: its promise rejects,
\* Promise.all rejects, the then handler never runs and the outputs of the
\* other children are dropped.
RefreshFails(i, k) ==
    /\ i \in 1..Len(refreshes)
    /\ k \in 1..Len(lpstat_keys)
    /\ refreshes' = Without(i)
    /\ escaped' = "rejection"
    /\ UNCHANGED <<printers, printersLoaded>>
    /\ UNCHANGED <<world, refreshInterval, timers, intervalArg, last, call>>
    /\ UNCHANGED <<exVars, lpVars>>

\* the client calls print(options)
PrintCall(options, fail) ==
    SubmitCall("print", options,
               print(options, printers, printersLoaded, refreshInterval, world, fail))

\* the client calls printDirect(options)
PrintDirectCall(options, fail) ==
    SubmitCall("printDirect", options,
               printDirect(options, printers, printersLoaded, refreshInterval, world, fail))

\* the lp child of the call closes: with code 0 runCommand resolves, the
\* callback resolves the promise of lp_print and the reactions chained to it
\* run; with another code runCommand rejects and no reaction is chained to it
LpExit(code) ==
    /\ call.child = "running"
    /\ call' = IF code # 0 THEN [call EXCEPT !.child = "failed"]
               ELSE IF call.kind = "print"
               THEN [call EXCEPT !.child = "closed", !.state = "resolved",
                                 !.value = callback(LpOutput(call.options.printer))]
               ELSE [call EXCEPT !.child = "closed",
                                 !.successCb = Append(@, callback(LpOutput(call.options.printer)))]
    /\ escaped' = IF code # 0 THEN "rejection" ELSE "none"
    /\ UNCHANGED <<world, printers, printersLoaded, refreshInterval, timers, refreshes,
                   intervalArg, last>>
    /\ UNCHANGED <<exVars, lpVars>>

\* the ways the five queries of a cold load can go: 0, all return; k, the
\* k-th throws.  A loaded directory runs no cold load.
Fails == IF printersLoaded THEN {0} ELSE 0..Len(lpstat_keys)

LookupNames == {"A", "B"}

\* the directory used through getPrinters, getPrinter and autoRefresh
DirNext ==
    \/ (\E w \in Worlds : CupsChanges(w)) /\ UNCHANGED histVars
    \/ (\E interval \in Intervals : autoRefresh(interval)) /\ UNCHANGED histVars
    \/ (\E t \in timers, fail \in Fails : Tick(t, fail)) /\ UNCHANGED histVars
    \/ (\E fail \in Fails : GetPrintersCall(fail)) /\ UNCHANGED histVars
    \/ (\E name \in LookupNames, fail \in Fails : GetPrinterCall(name, fail))
          /\ UNCHANGED histVars
    \/ (\E i \in 1..MaxInflight : RefreshCompletes(i)) /\ UNCHANGED histVars
    \/ (\E i \in 1..MaxInflight, k \in 1..Len(lpstat_keys) : RefreshFails(i, k))
          /\ UNCHANGED histVars

\* the directory used through print, printDirect and autoRefresh()
PrintNext ==
    \/ (\E w \in Worlds : CupsChanges(w)) /\ UNCHANGED histVars
    \/ autoRefresh(0) /\ UNCHANGED histVars
    \/ (\E t \in timers, fail \in Fails : Tick(t, fail)) /\ UNCHANGED histVars
    \/ (\E i \in 1..MaxInflight : RefreshCompletes(i)) /\ UNCHANGED histVars
    \/ (\E i \in 1..MaxInflight, k \in 1..Len(lpstat_keys) : RefreshFails(i, k))
          /\ UNCHANGED histVars
    \/ (\E options \in PrintRequests, fail \in Fails : PrintCall(options, fail))
          /\ UNCHANGED histVars
    \/ (\E options \in DirectRequests, fail \in Fails : PrintDirectCall(options, fail))
          /\ UNCHANGED histVars
    \/ (\E code \in {0, 1} : LpExit(code)) /\ UNCHANGED histVars

\* the marks of the refreshes left in flight when the i-th completes: the
\* refreshes started before it have been overtaken by its configuration
Overtaking(i) ==
    [k \in 1..(Len(refreshes) - 1) |->
        IF k < i THEN refreshes[i] ELSE overtaken[k + 1]]

\* the marks of the refreshes left in flight when the i-th fails
Dropping(i) == SubSeq(overtaken, 1, i - 1) \o SubSeq(overtaken, i + 1, Len(overtaken))

\* the marks after a step that completes no refresh: every refresh the step
\* started is in flight with no mark
Starting ==
    /\ overtaken' = overtaken \o [k \in 1..(Len(refreshes') - Len(refreshes)) |-> 0]
    /\ UNCHANGED completed

\* the directory used through getPrinters and autoRefresh(), with the history
\* of its background refreshes
RefreshNext ==
    \/ (\E w \in Worlds : CupsChanges(w)) /\ Starting
    \/ autoRefresh(0) /\ Starting
    \/ (\E t \in timers, fail \in Fails : Tick(t, fail)) /\ Starting
    \/ (\E fail \in Fails : GetPrintersCall(fail)) /\ Starting
    \/ \E i \in 1..MaxInflight :
          /\ RefreshCompletes(i)
          /\ overtaken' = Overtaking(i)
          /\ completed' = [w |-> refreshes[i], newer |-> overtaken[i]]
    \/ \E i \in 1..MaxInflight, k \in 1..Len(lpstat_keys) :
          /\ RefreshFails(i, k)
          /\ overtaken' = Dropping(i)
          /\ UNCHANGED completed

(***************************************************************************)
(* Properties of the directory.                                            *)
(***************************************************************************)
NameSet(records) == {records[i].name : i \in 1..Len(records)}

\* C2: when the lp child of a print or printDirect call closes with a
\* non-zero code, the promise of print is rejected, and the error callback of
\* printDirect is invoked; the call does not stay pending.  (LpExit runs the
\* close handler and every promise reaction it sets off, so what is pending
\* after it has no handler left that could settle it.)
C2_FailurePropagates ==
    call.child = "failed" =>
        IF call.kind = "print" THEN call.state = "rejected" ELSE Len(call.errorCb) >= 1

\* a print call without data and without file
NoPayloadPrint ==
    call.kind = "print" /\ call.options.data = "" /\ call.options.file = ""

\* C3 as stated: a print call without data and file fails, and from its start
\* to the failure no process is spawned, neither lpstat nor lp, whatever the
\* state of the directory.
C3_NoProcessSpawned ==
    NoPayloadPrint =>
        call.state = "rejected" /\ call.lpstatSpawned = 0 /\ call.lpSpawned = 0

\* C3 amended: a print call without data and file is rejected and spawns no
\* lp; it is rejected with the validation error when getPrinter found the
\* printer; it spawns no lpstat only when the directory is loaded with a
\* timer installed (or the printer name is missing), and otherwise the
\* getPrinter call made first spawns them: 1 to 5 on an unloaded directory,
\* all 5 on a loaded one without a timer.
C3_NoLpSpawned ==
    NoPayloadPrint =>
        /\ call.state = "rejected"
        /\ call.lpSpawned = 0 /\ call.child = "none"
        /\ call.found => call.value = StringValue("No data or file provided")
        /\ call.lpstatSpawned = 0 <=>
              (call.options.printer = "" \/ (call.loadedBefore /\ call.timerBefore))
        /\ (call.options.printer # "" /\ ~call.loadedBefore) => call.lpstatSpawned \in 1..5
        /\ (call.options.printer # "" /\ call.loadedBefore /\ ~call.timerBefore)
              => call.lpstatSpawned = 5

\* the validation error is reported after five lpstat children were spawned
C3_Witness ==
    /\ NoPayloadPrint
    /\ call.options.printer = "A"
    /\ call.loadedBefore /\ ~call.timerBefore
    /\ call.value = StringValue("No data or file provided")
    /\ call.lpstatSpawned = 5

\* C6: getPrinter on an unloaded directory, or with no timer installed, calls
\* getPrinters first (processes are spawned), and on an unloaded directory it
\* looks the name up in the list of that cold load; on a loaded directory
\* with a timer it spawns nothing and answers from the cache.
C6_GetPrinterLoadsFirst ==
    last.op = "getPrinter" =>
        /\ (~last.loadedBefore \/ ~last.timerBefore) => last.spawned > 0
        /\ (~last.loadedBefore /\ ~last.threw) =>
              /\ last.spawned = 5
              /\ last.found <=> last.name \in WorldNames(last.w)
        /\ (last.loadedBefore /\ ~last.timerBefore) =>
              /\ last.spawned = 5 /\ last.started = 1
              /\ last.found <=> last.name \in NameSet(last.before)
        /\ (last.loadedBefore /\ last.timerBefore) =>
              /\ last.spawned = 0 /\ last.started = 0
              /\ last.found <=> last.name \in NameSet(last.before)

\* getPrinter("B") cold-loaded a directory and found B in the fresh list
C6_Witness ==
    /\ last.op = "getPrinter" /\ last.name = "B"
    /\ ~last.loadedBefore /\ ~last.threw
    /\ last.found /\ last.spawned = 5

\* C7: at most one timer is active, the one this.refreshInterval names, and
\* it runs at the interval of the most recent autoRefresh call, 15000 when
\* that call gave none.
C7_OneTimer ==
    /\ Cardinality(timers) <= 1
    /\ intervalArg = <<>> => timers = {} /\ refreshInterval = 0
    /\ intervalArg # <<>> =>
          timers = {[id |-> refreshInterval,
                     ms |-> IF Last(intervalArg) = 0 THEN 15000 ELSE Last(intervalArg)]}

\* autoRefresh() then autoRefresh(5000): one timer, at 5000 ms
C7_Witness ==
    /\ intervalArg = <<0, 5000>>
    /\ timers = {[id |-> 1, ms |-> 5000]}

\* the step is a print or printDirect call in which getPrinter returned
LookedUpStep ==
    call' # call /\ call'.child \in {"none", "running"} /\ call'.looked

C8_State ==
    /\ (call.kind = "print" /\ call.looked /\ ~call.found) =>
          /\ call.state = "rejected"
          /\ call.value = StringValue(IF call.options.printer = "B"
                                      THEN "Printer \"B\" not found"
                                      ELSE "Printer \"A\" not found")
          /\ call.lpSpawned = 0 /\ call.child = "none" /\ ~call.delegated
    /\ (call.kind = "printDirect" /\ call.looked /\ ~call.found) =>
          /\ call.options.hasError
          /\ call.threw = ""
          /\ call.errorCb = <<IF call.options.printer = "B"
                              THEN "Printer \"B\" not found"
                              ELSE "Printer \"A\" not found">>
          /\ call.lpSpawned = 0 /\ call.child = "none" /\ ~call.delegated
    /\ (call.kind \in {"print", "printDirect"} /\ call.looked /\ call.found) =>
          /\ call.delegated
          /\ (call.kind = "print" /\ ValidRequest(call.options)) => call.lpSpawned = 1
          /\ (call.kind = "print" /\ ~ValidRequest(call.options)) =>
                call.state = "rejected" /\ call.lpSpawned = 0
          /\ (call.kind = "printDirect" /\ call.options.hasSuccess
                /\ call.options.data # "") => call.lpSpawned = 1

\* C8: when the printer is absent from the cache after getPrinter, print
\* rejects its promise with the not-found error and printDirect invokes the
\* error callback once and does not throw, and no lp is spawned; when it is
\* present, both enter the submission path.
C8_AbsentPrinterRejected ==
    /\ [](C8_State)
    /\ [][LookedUpStep =>
            (call'.found <=> call'.options.printer \in NameSet(printers'))]_vars

\* printDirect for B on a directory whose cache holds A alone
C8_Witness ==
    /\ call.kind = "printDirect" /\ call.looked /\ ~call.found
    /\ call.errorCb = <<"Printer \"B\" not found">>
    /\ NameSet(printers) = {"A"}

C9_State ==
    last.op = "getPrinters" =>
        IF last.loadedBefore
        THEN ~last.threw /\ last.ret = last.before /\ last.started = 1 /\ last.spawned = 5
        ELSE \/ last.threw
             \/ /\ last.spawned = 5 /\ last.started = 0
                /\ NameSet(last.ret) = WorldNames(last.w)

C9_Step ==
    /\ printersLoaded => printersLoaded'
    /\ (last'.seq # last.seq /\ last'.op = "getPrinters" /\ ~last'.threw) =>
          IF printersLoaded
          THEN printers' = printers /\ refreshes' = Append(refreshes, world)
          ELSE printers' = last'.ret /\ printersLoaded' /\ refreshes' = refreshes
    /\ (printersLoaded /\ printers' # printers) => Len(refreshes') < Len(refreshes)

\* C9: on an unloaded directory getPrinters runs the five queries, stores the
\* extracted records, sets printersLoaded and returns that list; on a loaded
\* one it returns the list cached at the call and starts exactly one
\* background refresh, and the cache of a loaded directory changes only when
\* a refresh completes; printersLoaded never goes back to FALSE.
C9_DirectoryStateMachine == [](C9_State) /\ [][C9_Step]_vars

\* a loaded getPrinters returned the old list; the refresh it started has
\* since completed and written another one
C9_Witness ==
    /\ last.op = "getPrinters" /\ last.loadedBefore
    /\ last.ret = last.before /\ last.started = 1
    /\ refreshes = <<>> /\ printers # last.ret

C10_State ==
    /\ ~printersLoaded => printers = <<>>
    /\ printers = <<>> \/ \E w \in Worlds : printers = Snapshot[w]
    /\ (last.op # "none" /\ last.threw) => ~last.loadedBefore /\ last.spawned \in 1..5

\* C10: a failing query, in the cold load or in a background refresh, leaves
\* the cached list and printersLoaded as they were, and the cache never holds
\* anything but the empty list or the records of a whole snapshot; an
\* unloaded directory has the empty list.
C10_AllOrNothing ==
    /\ [](C10_State)
    /\ [][escaped' # "none" =>
            (printers' = printers /\ printersLoaded' = printersLoaded)]_vars

\* a background refresh failed and the list of an earlier snapshot stands
C10_Witness ==
    /\ escaped = "rejection"
    /\ printersLoaded /\ NameSet(printers) = {"A", "B"} /\ world = 1

\* a background refresh completes in the step
Completion == Len(refreshes') < Len(refreshes) /\ escaped' = "none"

\* C12: every background refresh that completes overwrites the cache with
\* its own result, whether or not a refresh started after it has written the
\* cache before; so the cache of a directory whose refreshes have completed
\* holds the result of the one that completed last, also when that one was
\* started before another whose result it overwrites.
C12_LastWriterWins ==
    /\ [](completed.w # 0 =>
            /\ printers = Snapshot[completed.w]
            /\ NameSet(printers) = WorldNames(completed.w))
    /\ [][Completion =>
            \E i \in 1..Len(refreshes) :
                /\ refreshes' = Without(i)
                /\ printers' = Snapshot[refreshes[i]]
                /\ completed' = [w |-> refreshes[i], newer |-> overtaken[i]]]_vars

\* every refresh has completed and the cache holds the list of configuration
\* 1 (A alone), written over the list of configuration 2 (A and B) by a
\* refresh that was started before the one that had fetched that list
C12_Witness ==
    /\ refreshes = <<>>
    /\ completed = [w |-> 1, newer |-> 2]
    /\ world = 2
    /\ NameSet(printers) = {"A"}

(***************************************************************************)
(* Specifications.                                                         *)
(***************************************************************************)
InitExtract == ExInit /\ LpIdle /\ DirIdle

SpecExtract == InitExtract /\ [][ExNext]_vars

InitSubmit == LpInit /\ ExIdle /\ DirIdle

SpecSubmit == InitSubmit /\ [][LpNext]_vars

Init == DirInit /\ ExIdle /\ LpIdle

Spec == Init /\ [][DirNext]_vars

SpecPrint == Init /\ [][PrintNext]_vars

SpecRefresh == Init /\ [][RefreshNext]_vars

=============================================================================
